---- MODULE Spec2Model ----
(***************************************************************************)
(* Model of the KotobaTranscriber desktop shell (src-tauri):                *)
(*   commands.rs  the IPC command surface (get_api_port, get_api_token,     *)
(*                select_file, select_files, select_folder)                 *)
(*   tray.rs      the tray controller (menu and tray-icon handlers) and the *)
(*                icon rasterizer create_tray_icon_rgba                     *)
(* AppState (crate::AppState) and the sidecar monitor that writes it are    *)
(* declared outside these two files; they are modelled from the design      *)
(* description: a record of two optional fields with one setter per field.  *)
(***************************************************************************)
EXTENDS Integers, Sequences, FiniteSets, TLC

VARIABLES
    state,        \* AppState: [port, token], each an Option
    monitor,      \* the fields the sidecar monitor has already reported
    mainWindow,   \* the host's "main" webview window: None or Some(window)
    last,         \* the last command or event the host dispatched, and its outcome
    nDispatched,  \* number of commands and events dispatched so far
    swallowed,    \* TRUE once an event was handled while the window was missing
    exited,       \* TRUE once app.exit(0) was called
    readers,      \* frontend readers assembling a (port, token) pair
    rpc, x, y, data   \* create_tray_icon_rgba: position and locals

vars == <<state, monitor, mainWindow, last, nDispatched, swallowed, exited,
          readers, rpc, x, y, data>>

connVars   == <<state, monitor>>
hostVars   == <<mainWindow, last, nDispatched, swallowed, exited>>
rasterVars == <<rpc, x, y, data>>

----------------------------------------------------------------------------
(* Option and Result values *)

None      == [tag |-> "None"]
Some(v)   == [tag |-> "Some", val |-> v]
Ok(v)     == [tag |-> "Ok", val |-> v]
IsSome(o) == o.tag = "Some"
IsNone(o) == o.tag = "None"

(* Bounds of the model *)
MaxDispatch == 3      \* commands and events dispatched in one run
MaxPick     == 2      \* paths a multi-selection dialog reports
MaxRounds   == 1      \* pairs each frontend reader assembles after its first

----------------------------------------------------------------------------
(* Icon rasterizer: create_tray_icon_rgba, tray.rs 73-114 *)

SIZE == 32
total_pixels == SIZE * SIZE

R == 255    \* 0xFF
G == 152    \* 0x98
B == 0      \* 0x00

RECURSIVE ISqrtSearch(_, _, _)
\* largest r in lo..hi with r*r <= n
ISqrtSearch(n, lo, hi) ==
    IF lo = hi THEN lo
    ELSE LET mid == (lo + hi + 1) \div 2
         IN  IF mid * mid <= n THEN ISqrtSearch(n, mid, hi)
                               ELSE ISqrtSearch(n, lo, mid - 1)

\* sqrt of a value given in quarters (q = 4*v), rounded to the nearest
\* multiple of 2^-10 and returned in units of 2^-10.  f32::sqrt is correctly
\* rounded onto a grid of 2^-20 near 14.0; both roundings are monotone and
\* 14.0 lies on both grids, so `sqrt(v) < 14.0` is decided alike unless
\* sqrt(v) falls in [14 - 2^-11, 14), which no lattice point does (the
\* nearest are sqrt(195.5) = 13.982.. and sqrt(196.5) = 14.017..).
sqrt(q) ==
    LET m == q * 262144                  \* (1024 * sqrt(q/4))^2
        r == ISqrtSearch(m, 0, 46340)
    IN  IF m - r * r > r THEN r + 1 ELSE r

\* cx = x as f32 - 15.5, in halves (exact in f32)
Centered(c) == 2 * c - 31

\* dist = (cx*cx + cy*cy).sqrt(), in units of 2^-10
dist(px, py) == sqrt(Centered(px) * Centered(px) + Centered(py) * Centered(py))

RadiusQ10 == 14 * 1024     \* 14.0

\* `dist < 14.0`
in_disk_wide(px, py) == dist(px, py) < 24 * 1024
in_disk(px, py) == dist(px, py) < RadiusQ10

Abs(i) == IF i < 0 THEN -i ELSE i

\* the letter K: vertical bar, or the two diagonal strokes
in_k_one_diagonal(px, py) ==
    \/ (px >= 9 /\ px <= 12)
    \/ (px >= 13 /\ px <= 22 /\
          LET ky == py - 16
              kx == px - 13
          IN  Abs(ky - kx) <= 2)
in_k(px, py) ==
    \/ (px >= 9 /\ px <= 12)
    \/ (px >= 13 /\ px <= 22 /\
          LET ky == py - 16
              kx == px - 13
          IN  Abs(ky - kx) <= 2 \/ Abs(ky + kx) <= 2)

\* `in_k && y >= 7 && y <= 25`
letter_no_window(px, py) == in_k(px, py)
letter(px, py) == in_k(px, py) /\ py >= 7 /\ py <= 25

\* the four bytes the loop body leaves at idx..idx+3, given what was there
pixel(px, py, old) ==
    IF in_disk(px, py)
    THEN IF letter(px, py) THEN <<255, 255, 255, 255>> ELSE <<R, G, B, 255>>
    ELSE old

RasterInit ==
    /\ rpc = "loop"
    /\ x = 0
    /\ y = 0
    /\ data = [i \in 0 .. (total_pixels * 4 - 1) |-> 0]

RasterIdle ==
    /\ rpc = "idle"
    /\ x = 0
    /\ y = 0
    /\ data = <<>>

\* one iteration of the inner loop body
RasterPixel ==
    /\ rpc = "loop"
    /\ y < SIZE
    /\ LET idx == (y * SIZE + x) * 4
           px  == pixel(x, y, <<data[idx], data[idx + 1], data[idx + 2], data[idx + 3]>>)
       IN  data' = [data EXCEPT ![idx] = px[1], ![idx + 1] = px[2],
                                ![idx + 2] = px[3], ![idx + 3] = px[4]]
    /\ IF x + 1 < SIZE
       THEN x' = x + 1 /\ y' = y
       ELSE x' = 0 /\ y' = y + 1
    /\ rpc' = rpc
    /\ UNCHANGED <<connVars, hostVars, readers>>

\* `data` is returned
RasterReturn ==
    /\ rpc = "loop"
    /\ y = SIZE
    /\ rpc' = "returned"
    /\ UNCHANGED <<x, y, data, connVars, hostVars, readers>>

----------------------------------------------------------------------------
(* Connection state store: crate::AppState and the sidecar monitor *)

Ports  == {5173, 65535}           \* u16 values the sidecar may report
Tokens == {"abc123", "abc"}

get_port(s)  == s.port
get_token(s) == s.token

set_port(s, p)  == [s EXCEPT !.port = Some(p)]
set_token(s, t) == [s EXCEPT !.token = Some(t)]

\* the monitor reports each field once, through that field's setter
MonitorSetPort ==
    /\ ~exited
    /\ "port" \notin monitor
    /\ \E p \in Ports : state' = set_port(state, p)
    /\ monitor' = monitor \cup {"port"}
    /\ UNCHANGED <<hostVars, readers, rasterVars>>

MonitorSetToken ==
    /\ ~exited
    /\ "token" \notin monitor
    /\ \E t \in Tokens : state' = set_token(state, t)
    /\ monitor' = monitor \cup {"token"}
    /\ UNCHANGED <<hostVars, readers, rasterVars>>

----------------------------------------------------------------------------
(* Command surface: commands.rs *)

get_api_port_never_ready(s) == Ok(None)
get_api_port_default(s) ==
    Ok(Some(IF IsSome(get_port(s)) THEN get_port(s).val ELSE 0))
get_api_port(s) == Ok(get_port(s))

get_api_token_default(s) ==
    Ok(Some(IF IsSome(get_token(s)) THEN get_token(s).val ELSE ""))
get_api_token(s) == Ok(get_token(s))

\* What a dialog hands back: tauri_plugin_dialog::FilePath is a filesystem
\* path (OS string, possibly not valid Unicode) or a URL.  `raw` is the
\* sequence of its pieces; the piece Invalid stands for bytes that are not
\* valid Unicode.
Invalid     == "<invalid>"
Replacement == "U+FFFD"

FilePaths ==
    { [kind |-> "Path", raw |-> <<"/tmp/a.mp3">>],
      [kind |-> "Path", raw |-> <<"/tmp/", Invalid, ".wav">>],
      [kind |-> "Url",  raw |-> <<"file:///tmp/b.mkv">>] }

\* path.to_string(): Display of a FilePath; a path is printed lossily
to_string(path) ==
    IF path.kind = "Path"
    THEN [i \in 1 .. Len(path.raw) |->
            IF path.raw[i] = Invalid THEN Replacement ELSE path.raw[i]]
    ELSE path.raw

RECURSIVE SeqsUpTo(_, _)
SeqsUpTo(S, n) ==
    IF n = 0 THEN {<<>>}
    ELSE LET shorter == SeqsUpTo(S, n - 1)
         IN  shorter \cup {Append(q, e) : q \in shorter, e \in S}

\* blocking_pick_file / blocking_pick_folder: None when the user cancels
PickOne  == {None} \cup {Some(p) : p \in FilePaths}
\* blocking_pick_files
PickMany == {None} \cup {Some(q) : q \in SeqsUpTo(FilePaths, MaxPick)}

select_file_cancel_err(file) ==
    IF IsSome(file) THEN Ok(Some(to_string(file.val)))
    ELSE [tag |-> "Err", val |-> "cancelled"]
select_file(file) ==
    IF IsSome(file) THEN Ok(Some(to_string(file.val))) ELSE Ok(None)

select_files(files) ==
    IF IsSome(files)
    THEN Ok([i \in 1 .. Len(files.val) |-> to_string(files.val[i])])
    ELSE Ok(<<>>)

select_folder(folder) ==
    IF IsSome(folder) THEN Ok(Some(to_string(folder.val))) ELSE Ok(None)

Dispatch(kind, name, input, issued, result) ==
    [kind |-> kind, name |-> name, input |-> input, issued |-> issued,
     result |-> result]

CanDispatch == ~exited /\ nDispatched < MaxDispatch

Invoke(name, input, result) ==
    /\ last' = Dispatch("ipc", name, input, <<>>, result)
    /\ nDispatched' = nDispatched + 1
    /\ UNCHANGED <<state, monitor, mainWindow, swallowed, exited, readers,
                   rasterVars>>

GetApiPort ==
    /\ CanDispatch
    /\ Invoke("get_api_port", None, get_api_port(state))

GetApiToken ==
    /\ CanDispatch
    /\ Invoke("get_api_token", None, get_api_token(state))

SelectFile ==
    /\ CanDispatch
    /\ \E file \in PickOne : Invoke("select_file", file, select_file(file))

SelectFiles ==
    /\ CanDispatch
    /\ \E files \in PickMany : Invoke("select_files", files, select_files(files))

SelectFolder ==
    /\ CanDispatch
    /\ \E folder \in PickOne : Invoke("select_folder", folder, select_folder(folder))

----------------------------------------------------------------------------
(* Tray controller: create_tray, tray.rs 11-70 *)

\* the host window's own state, queried and commanded but never cached
Windows == [visible : BOOLEAN, minimized : BOOLEAN, focused : BOOLEAN]

\* host window capabilities the handlers call
show(w)       == [w EXCEPT !.visible = TRUE]
hide(w)       == [w EXCEPT !.visible = FALSE]
unminimize(w) == [w EXCEPT !.minimized = FALSE]
set_focus(w)  == [w EXCEPT !.focused = TRUE]
is_visible(w) == Ok(w.visible)

\* app.get_webview_window("main")
get_webview_window(win) == win

unwrap_or(res, dflt) == IF res.tag = "Ok" THEN res.val ELSE dflt

MenuIds == {"show", "hide", "quit", "other"}

\* TrayIconEvent values the host delivers
TrayEvents ==
    { [type |-> "Click", button |-> "Left",  button_state |-> "Up"],
      [type |-> "Click", button |-> "Left",  button_state |-> "Down"],
      [type |-> "Click", button |-> "Right", button_state |-> "Up"],
      [type |-> "DoubleClick", button |-> "Left", button_state |-> "Up"],
      [type |-> "Enter", button |-> "None", button_state |-> "None"] }

\* what a handler did: the window as it leaves it, the window commands it
\* issued in order, and whether it asked the process to exit
Effect(win, issued, exit)  == [win |-> win, issued |-> issued, exit |-> exit]
Nothing(win)               == Effect(win, <<>>, FALSE)

show_window(win) ==
    Effect(Some(set_focus(unminimize(show(win.val)))),
           <<"show", "unminimize", "set_focus">>, FALSE)

hide_window(win) == Effect(Some(hide(win.val)), <<"hide">>, FALSE)

\* .on_menu_event(move |app, event| match event.id().as_ref() { .. })
on_menu_event_show_only_shows(id, win) ==
    LET window == get_webview_window(win)
    IN  CASE id = "show" ->
               IF IsSome(window)
               THEN Effect(Some(show(window.val)), <<"show">>, FALSE)
               ELSE Nothing(win)
          [] id = "hide" ->
               IF IsSome(window) THEN hide_window(window) ELSE Nothing(win)
          [] id = "quit" -> Effect(win, <<>>, TRUE)
          [] OTHER -> Nothing(win)
on_menu_event_unwrap(id, win) ==
    LET window == get_webview_window(win)
    IN  CASE id = "show" ->
               IF IsSome(window) THEN show_window(window)
               ELSE Effect(win, <<>>, TRUE)
          [] id = "hide" ->
               IF IsSome(window) THEN hide_window(window)
               ELSE Effect(win, <<>>, TRUE)
          [] id = "quit" -> Effect(win, <<>>, TRUE)
          [] OTHER -> Nothing(win)
on_menu_event(id, win) ==
    LET window == get_webview_window(win)
    IN  CASE id = "show" ->
               IF IsSome(window) THEN show_window(window) ELSE Nothing(win)
          [] id = "hide" ->
               IF IsSome(window) THEN hide_window(window) ELSE Nothing(win)
          [] id = "quit" -> Effect(win, <<>>, TRUE)
          [] OTHER -> Nothing(win)

\* .on_tray_icon_event(|tray, event| { if let Click { button: Left, .. } .. })
\* a handler keeping its own flag: the visibility its last command left
CachedVisible ==
    IF last.issued = <<>> THEN TRUE ELSE last.issued[1] = "show"
on_tray_icon_event_cached(event, win) ==
    IF event.type = "Click" /\ event.button = "Left"
    THEN LET window == get_webview_window(win)
         IN  IF IsSome(window)
             THEN IF CachedVisible
                  THEN hide_window(window)
                  ELSE show_window(window)
             ELSE Nothing(win)
    ELSE Nothing(win)
on_tray_icon_event(event, win) ==
    IF event.type = "Click" /\ event.button = "Left"
    THEN LET window == get_webview_window(win)
         IN  IF IsSome(window)
             THEN IF unwrap_or(is_visible(window.val), FALSE)
                  THEN hide_window(window)
                  ELSE show_window(window)
             ELSE Nothing(win)
    ELSE Nothing(win)

Handle(kind, name, input, eff, needsWindow) ==
    /\ mainWindow' = eff.win
    /\ last' = Dispatch(kind, name, input, eff.issued, "unit")
    /\ nDispatched' = nDispatched + 1
    /\ swallowed' = (swallowed \/ (needsWindow /\ IsNone(mainWindow)))
    /\ exited' = eff.exit
    /\ UNCHANGED <<state, monitor, readers, rasterVars>>

MenuEvent ==
    /\ CanDispatch
    /\ \E id \in MenuIds :
          Handle("menu", id, None, on_menu_event(id, mainWindow),
                 id \in {"show", "hide"})

TrayIconEvent ==
    /\ CanDispatch
    /\ \E event \in TrayEvents :
          Handle("tray", event.type, event,
                 on_tray_icon_event(event, mainWindow),
                 event.type = "Click" /\ event.button = "Left")

\* the window changes by means outside this controller (window manager,
\* OS shortcuts, other code paths)
ExternalWindowChange ==
    /\ ~exited
    /\ IsSome(mainWindow)
    /\ \E w \in Windows :
          /\ w # mainWindow.val
          /\ mainWindow' = Some(w)
    /\ UNCHANGED <<last, nDispatched, swallowed, exited, connVars, readers,
                   rasterVars>>

WindowDestroyed ==
    /\ ~exited
    /\ IsSome(mainWindow)
    /\ mainWindow' = None
    /\ UNCHANGED <<last, nDispatched, swallowed, exited, connVars, readers,
                   rasterVars>>

WindowCreated ==
    /\ ~exited
    /\ IsNone(mainWindow)
    /\ \E w \in Windows : mainWindow' = Some(w)
    /\ UNCHANGED <<last, nDispatched, swallowed, exited, connVars, readers,
                   rasterVars>>

----------------------------------------------------------------------------
(* Frontend readers: each assembles a (port, token) pair through the two   *)
(* commands, in either order                                               *)

Readers == {"r1", "r2"}
NotRead == [tag |-> "NotRead"]

ReaderIdle(rounds) ==
    [pc |-> "idle", port |-> NotRead, token |-> NotRead, rounds |-> rounds]

ReadPort(r) ==
    /\ readers[r].pc \in {"idle", "token_read"}
    /\ readers' = [readers EXCEPT
          ![r].port = get_api_port(state),
          ![r].pc = IF readers[r].pc = "idle" THEN "port_read" ELSE "done"]
    /\ UNCHANGED <<connVars, hostVars, rasterVars>>

ReadToken(r) ==
    /\ readers[r].pc \in {"idle", "port_read"}
    /\ readers' = [readers EXCEPT
          ![r].token = get_api_token(state),
          ![r].pc = IF readers[r].pc = "idle" THEN "token_read" ELSE "done"]
    /\ UNCHANGED <<connVars, hostVars, rasterVars>>

ReaderRestart(r) ==
    /\ readers[r].pc = "done"
    /\ readers[r].rounds < MaxRounds
    /\ readers' = [readers EXCEPT ![r] = ReaderIdle(readers[r].rounds + 1)]
    /\ UNCHANGED <<connVars, hostVars, rasterVars>>

----------------------------------------------------------------------------
(* Specifications *)

RuntimeInit ==
    /\ state = [port |-> None, token |-> None]
    /\ monitor = {}
    /\ mainWindow = Some([visible |-> TRUE, minimized |-> FALSE, focused |-> TRUE])
    /\ last = Dispatch("none", "none", None, <<>>, "unit")
    /\ nDispatched = 0
    /\ swallowed = FALSE
    /\ exited = FALSE
    /\ readers = [r \in Readers |-> ReaderIdle(0)]

\* the running shell: monitor, frontend commands, tray and menu events
Init == RuntimeInit /\ RasterIdle

Next ==
    \/ MonitorSetPort
    \/ MonitorSetToken
    \/ GetApiPort
    \/ GetApiToken
    \/ SelectFile
    \/ SelectFiles
    \/ SelectFolder
    \/ MenuEvent
    \/ TrayIconEvent
    \/ ExternalWindowChange
    \/ WindowDestroyed
    \/ WindowCreated

Spec == Init /\ [][Next]_vars

\* one writer and concurrent frontend readers
NextReaders ==
    \/ MonitorSetPort
    \/ MonitorSetToken
    \/ \E r \in Readers : ReadPort(r)
    \/ \E r \in Readers : ReadToken(r)
    \/ \E r \in Readers : ReaderRestart(r)

SpecReaders == Init /\ [][NextReaders]_vars

\* startup: create_tray rasterizes the icon once
InitIcon == RuntimeInit /\ RasterInit

NextIcon ==
    \/ RasterPixel
    \/ RasterReturn

SpecIcon == InitIcon /\ [][NextIcon]_vars

----------------------------------------------------------------------------
(* Properties *)

Returned == rpc = "returned"

\* the four bytes of pixel (px, py) in the returned buffer
PixelAt(px, py) ==
    LET idx == (py * 32 + px) * 4
    IN  <<data[idx], data[idx + 1], data[idx + 2], data[idx + 3]>>

Coords == 0 .. 31

\* squared distance from (15.5, 15.5), times four
Dist2x4(px, py) == (2 * px - 31) * (2 * px - 31) + (2 * py - 31) * (2 * py - 31)

\* C1 as stated: in the returned buffer pixel (15, 15) is the opaque
\* background colour (0xFF, 0x98, 0x00, 255), not overpainted by the letter.
C1_CenterIsBackground ==
    Returned => PixelAt(15, 15) = <<255, 152, 0, 255>>

\* C1 amended: pixel (15, 15) lies inside the disk and on the upper diagonal
\* stroke of the letter (kx = 2, ky = -1, |ky + kx| = 1), so in the returned
\* buffer it is opaque white (255, 255, 255, 255).
C1_CenterIsLetter ==
    Returned => PixelAt(15, 15) = <<255, 255, 255, 255>>

C1_Witness ==
    /\ Returned
    /\ Dist2x4(15, 15) < 784
    /\ data[(15 * 32 + 15) * 4 + 3] = 255

\* C2: every pixel at distance >= 14.0 from (15.5, 15.5) has all four bytes
\* zero in the returned buffer, pixel (0, 0) included.
C2_OutsideDiskTransparent ==
    Returned =>
        \A px \in Coords, py \in Coords :
            Dist2x4(px, py) >= 784 => PixelAt(px, py) = <<0, 0, 0, 0>>

\* the buffer is complete, the corner is transparent, and so is a pixel
\* just outside the rim, in the rows of the letter
C2_Witness ==
    /\ Returned
    /\ PixelAt(0, 0) = <<0, 0, 0, 0>>
    /\ \E px \in Coords, py \in Coords :
          /\ Dist2x4(px, py) >= 784 /\ Dist2x4(px, py) < 850
          /\ py >= 7 /\ py <= 25
          /\ PixelAt(px, py) = <<0, 0, 0, 0>>

\* the letterform as the design states it
RefLetter(px, py) ==
    /\ 7 <= py /\ py <= 25
    /\ \/ (9 <= px /\ px <= 12)
       \/ /\ 13 <= px /\ px <= 22
          /\ LET kx == px - 13
                 ky == py - 16
             IN  \/ (ky - kx <= 2 /\ kx - ky <= 2)
                 \/ (ky + kx <= 2 /\ - (ky + kx) <= 2)

RefPixel(px, py) ==
    IF Dist2x4(px, py) < 784
    THEN IF RefLetter(px, py) THEN <<255, 255, 255, 255>>
                              ELSE <<255, 152, 0, 255>>
    ELSE <<0, 0, 0, 0>>

\* C8: inside the disk every pixel is opaque, white exactly on the letterform
\* and the background colour elsewhere; the returned buffer agrees with the
\* reference predicate on all 32x32 pixels.
C8_MatchesReference ==
    Returned =>
        \A px \in Coords, py \in Coords : PixelAt(px, py) = RefPixel(px, py)

C8_Witness ==
    /\ Returned
    /\ \E px \in Coords, py \in Coords : PixelAt(px, py) = <<255, 255, 255, 255>>
    /\ \E px \in Coords, py \in Coords :
          /\ PixelAt(px, py) = <<255, 152, 0, 255>>
          /\ (py < 7 \/ py > 25)
          /\ 9 <= px /\ px <= 12

Dispatched == nDispatched' = nDispatched + 1

IsLeftClick(d) ==
    d.kind = "tray" /\ d.input.type = "Click" /\ d.input.button = "Left"

IsMenu(d, id) == d.kind = "menu" /\ d.name = id

Shown(win) ==
    IsSome(win) /\ win.val.visible /\ ~win.val.minimized /\ win.val.focused

Hidden(win) == IsSome(win) /\ ~win.val.visible

C9_MenuShowHideForce ==
    [][ (Dispatched /\ IsSome(mainWindow)) =>
            /\ IsMenu(last', "show") => Shown(mainWindow')
            /\ IsMenu(last', "hide") => Hidden(mainWindow') ]_vars

C9_Witness ==
    /\ IsMenu(last, "show")
    /\ last.issued = <<"show", "unminimize", "set_focus">>
    /\ Shown(mainWindow)
    /\ nDispatched >= 2

NeedsWindow(d) == IsMenu(d, "show") \/ IsMenu(d, "hide") \/ IsLeftClick(d)

\* C10: with the main window missing, menu "show", menu "hide" and a left
\* click issue no window command, change nothing and do not end the process;
\* events handled afterwards with the window present issue their commands.
C10_MissingWindowIsNoOp ==
    [][ (Dispatched /\ NeedsWindow(last')) =>
            /\ IsNone(mainWindow) =>
                  /\ last'.issued = <<>>
                  /\ last'.result = "unit"
                  /\ mainWindow' = mainWindow
                  /\ ~exited'
            /\ (swallowed /\ IsSome(mainWindow)) =>
                  /\ last'.issued # <<>>
                  /\ ~exited' ]_vars

C10_Witness ==
    /\ swallowed
    /\ NeedsWindow(last)
    /\ last.issued # <<>>
    /\ IsSome(mainWindow)
    /\ ~exited

IsCall(d, name) == d.kind = "ipc" /\ d.name = name

BothWritten == monitor = {"port", "token"}

\* C4: once the monitor has written port and token, no command or event
\* changes them and every get_api_port / get_api_token returns Ok(Some(v))
\* with exactly the written value.
C4_ReadsReturnWrittenValues ==
    [][ BothWritten =>
            /\ state' = state
            /\ IsSome(state.port) /\ IsSome(state.token)
            /\ (Dispatched /\ IsCall(last', "get_api_port")) =>
                  last'.result = Ok(Some(state.port.val))
            /\ (Dispatched /\ IsCall(last', "get_api_token")) =>
                  last'.result = Ok(Some(state.token.val)) ]_vars

C4_Witness ==
    /\ BothWritten
    /\ IsCall(last, "get_api_token")
    /\ last.result = Ok(state.token)
    /\ state.port = Some(5173)
    /\ state.token = Some("abc123")
    /\ nDispatched >= 3

\* C5: before the monitor has written anything, get_api_port and
\* get_api_token return Ok(None), never an Err.
C5_UnsetReadsNotReady ==
    (monitor = {} /\ (IsCall(last, "get_api_port") \/ IsCall(last, "get_api_token")))
        => last.result = Ok(None)

C5_Witness ==
    /\ monitor = {}
    /\ IsCall(last, "get_api_port")
    /\ last.result = Ok(None)
    /\ nDispatched >= 2

C6_PairNeverTorn ==
    \A r \in Readers :
        readers[r].pc = "done" =>
            (IsSome(readers[r].port.val) <=> IsSome(readers[r].token.val))

\* C6 amended: every single read returns Ok with either None or exactly the
\* value stored for that field; only the pair assembled from two commands
\* can be torn.
C6_EachReadWhole ==
    \A r \in Readers :
        /\ readers[r].port # NotRead =>
              /\ readers[r].port.tag = "Ok"
              /\ (IsNone(readers[r].port.val) \/ readers[r].port.val = state.port)
        /\ readers[r].token # NotRead =>
              /\ readers[r].token.tag = "Ok"
              /\ (IsNone(readers[r].token.val) \/ readers[r].token.val = state.token)

C6_Witness ==
    \E r \in Readers :
        /\ readers[r].pc = "done"
        /\ IsNone(readers[r].port.val)
        /\ readers[r].token.val = state.token
        /\ IsSome(state.token)
        /\ \E q \in Readers \ {r} :
              readers[q].pc = "done" /\ IsSome(readers[q].port.val)

====
